---------------------------- MODULE Spec2Model ----------------------------
(***************************************************************************)
(* A model of app.py, the Streamlit dashboard of Ecuador's administrative  *)
(* hierarchy.  One behaviour is one browser session: every step is one     *)
(* run of the script from top to bottom, started by the first load, by a   *)
(* rerun, or by the user changing one sidebar control.                     *)
(*                                                                         *)
(* Python strings that the script title-cases, compares or sorts are       *)
(* sequences of Unicode code points (ASCII and the Latin-1 letters other   *)
(* than 223 and 255, which is the alphabet of the catalog and of the       *)
(* service's names).  Strings that are only labels are TLA+ strings.       *)
(* Coordinates are in units of 10^-5 degree.                               *)
(***************************************************************************)
EXTENDS Integers, Sequences, FiniteSets, TLC

VARIABLES
    cache,              \* st.cache_data entry of fetch_parroquias_geojson
    nivel,              \* widget state of the radio "Nivel de visualización"
    region,             \* widget state of the selectbox "Región"
    mostrar_puntos,     \* widget state of the checkbox "Mostrar puntos ..."
    mostrar_indic,      \* widget state of the checkbox "Mostrar indicadores ..."
    wProvincia,         \* widget state of the selectbox "Provincia"
    wCanton,            \* widget state of the selectbox "Cantón"
    outcome,            \* how the last run of the script ended
    netCalls,           \* requests.get calls made by the last run
    response,           \* what requests.get came back with in the last run
    sel,                \* provincias_region / provincia / canton of the last run
    filtered_features,  \* filtered_features of the last run
    page,               \* what the last run put on the page, sections 6 to 9
    df_top              \* section 10: the rows handed to the bar chart

vars == <<cache, nivel, region, mostrar_puntos, mostrar_indic, wProvincia,
          wCanton, outcome, netCalls, response, sel, filtered_features, page, df_top>>

(***************************************************************************)
(* Bounds of the model.                                                    *)
(***************************************************************************)
\* longest feature list the service answers with
MaxFeatures == 2

(***************************************************************************)
(* 0) Configuration and static data                                        *)
(***************************************************************************)
FIELD_PROV == "DPA_DESPRO"
FIELD_CANT == "DPA_DESCAN"
FIELD_PARR == "DPA_DESPAR"
FIELD_AREA == "AREA_KM2"

(* Región -> Provincias.  Every province name is the sequence of the code
   points of the Python string, so that str.title() and string comparison
   can be computed on it. *)
REGIONES ==
    ("Costa" :> <<
        <<69,115,109,101,114,97,108,100,97,115>>,    \* Esmeraldas
        <<77,97,110,97,98,237>>,    \* Manabí
        <<83,97,110,116,111,32,68,111,109,105,110,103,111,32,68,101,32,76,111,115,32,84,115,225,99,104,105,108,97,115>>,    \* Santo Domingo De Los Tsáchilas
        <<76,111,115,32,82,237,111,115>>,    \* Los Ríos
        <<71,117,97,121,97,115>>,    \* Guayas
        <<83,97,110,116,97,32,69,108,101,110,97>>,    \* Santa Elena
        <<69,108,32,79,114,111>>    \* El Oro
      >>)
    @@ ("Sierra" :> <<
        <<67,97,114,99,104,105>>,    \* Carchi
        <<73,109,98,97,98,117,114,97>>,    \* Imbabura
        <<80,105,99,104,105,110,99,104,97>>,    \* Pichincha
        <<67,111,116,111,112,97,120,105>>,    \* Cotopaxi
        <<84,117,110,103,117,114,97,104,117,97>>,    \* Tungurahua
        <<66,111,108,237,118,97,114>>,    \* Bolívar
        <<67,104,105,109,98,111,114,97,122,111>>,    \* Chimborazo
        <<67,97,241,97,114>>,    \* Cañar
        <<65,122,117,97,121>>,    \* Azuay
        <<76,111,106,97>>    \* Loja
      >>)
    @@ ("Amazonía" :> <<
        <<83,117,99,117,109,98,237,111,115>>,    \* Sucumbíos
        <<78,97,112,111>>,    \* Napo
        <<79,114,101,108,108,97,110,97>>,    \* Orellana
        <<80,97,115,116,97,122,97>>,    \* Pastaza
        <<77,111,114,111,110,97,32,83,97,110,116,105,97,103,111>>,    \* Morona Santiago
        <<90,97,109,111,114,97,32,67,104,105,110,99,104,105,112,101>>    \* Zamora Chinchipe
      >>)
    @@ ("Insular (Galápagos)" :> <<
        <<71,97,108,225,112,97,103,111,115>>    \* Galápagos
      >>)

RegionNames == <<"Costa", "Sierra", "Amazonía", "Insular (Galápagos)">>

PUNTOS_GEO_JSON == [puntos_geopoliticos |-> <<
    [tipo |-> "Puerto Comercial", nombre |-> "Puerto de Guayaquil",
     ubicacion |-> [lat |-> -225920, lon |-> -7991450],
     descripcion |-> "Principal puerto del país, clave para el comercio exterior.",
     importancia |-> "Alta"],
    [tipo |-> "Puerto Comercial", nombre |-> "Puerto de Esmeraldas",
     ubicacion |-> [lat |-> 95920, lon |-> -7965397],
     descripcion |-> "Puerto multipropósito estratégico, cercano al Canal de Panamá (cercano a ciudad de Esmeraldas).",
     importancia |-> "Media"],
    [tipo |-> "Puerto Comercial", nombre |-> "Puerto Bolívar",
     ubicacion |-> [lat |-> -334560, lon |-> -7999830],
     descripcion |-> "Segundo puerto bananero del país, clave para exportaciones agrícolas.",
     importancia |-> "Media"],
    [tipo |-> "Refinería", nombre |-> "Refinería de Esmeraldas",
     ubicacion |-> [lat |-> 96340, lon |-> -7966440],
     descripcion |-> "Principal refinería de petróleo de Ecuador.",
     importancia |-> "Alta"],
    [tipo |-> "Extracción Petrolera", nombre |-> "Campos de Lago Agrio (Sucumbíos)",
     ubicacion |-> [lat |-> 10000, lon |-> -7680000],
     descripcion |-> "Zona histórica y estratégica de extracción petrolera en la Amazonía.",
     importancia |-> "Alta"],
    [tipo |-> "Extracción Petrolera", nombre |-> "Campo Sacha",
     ubicacion |-> [lat |-> -34170, lon |-> -7718330],
     descripcion |-> "Uno de los mayores y más antiguos campos petroleros con récord de producción.",
     importancia |-> "Alta"],
    [tipo |-> "Extracción Petrolera", nombre |-> "Campo Pungarayacu (Bloque 20)",
     ubicacion |-> [lat |-> -70000, lon |-> -7780000],
     descripcion |-> "Campo de crudo pesado con reservas gigantes y producción significativa.",
     importancia |-> "Alta"],
    [tipo |-> "Extracción Petrolera", nombre |-> "Bloque 43-ITT (Yasuní)",
     ubicacion |-> [lat |-> -68000, lon |-> -7643000],
     descripcion |-> "Bloque en reserva natural; en cierre progresivo tras referendo.",
     importancia |-> "Alta"],
    [tipo |-> "Centro de Poder Político", nombre |-> "Palacio de Carondelet",
     ubicacion |-> [lat |-> -22010, lon |-> -7851350],
     descripcion |-> "Sede del Gobierno de la República del Ecuador.",
     importancia |-> "Alta"],
    [tipo |-> "Extracción Minera", nombre |-> "Proyectos Mineros Mirador y Fruta del Norte",
     ubicacion |-> [lat |-> -388230, lon |-> -7849070],
     descripcion |-> "Proyectos de cobre y oro importantes para diversificación económica.",
     importancia |-> "Alta"],
    [tipo |-> "Extracción Minera", nombre |-> "Proyecto La Plata",
     ubicacion |-> [lat |-> -10000, lon |-> -7880000],
     descripcion |-> "Depósito masivo de sulfuros ricos en oro, en fase de consulta ambiental.",
     importancia |-> "Media"],
    [tipo |-> "Frontera Estratégica", nombre |-> "Puente Internacional de Rumichaca",
     ubicacion |-> [lat |-> 82560, lon |-> -7765930],
     descripcion |-> "Principal punto de control fronterizo con Colombia, de alto flujo comercial y migratorio.",
     importancia |-> "Alta"],
    [tipo |-> "Activo Estratégico", nombre |-> "Reserva Marina de Galápagos",
     ubicacion |-> [lat |-> 0, lon |-> -9000000],
     descripcion |-> "Reserva natural con valor ecológico global y gran zona económica exclusiva.",
     importancia |-> "Extrema"],
    [tipo |-> "Infraestructura Aeroespacial / Militar", nombre |-> "Aeropuerto Internacional Eloy Alfaro (Base Aérea de Manta)",
     ubicacion |-> [lat |-> -96500, lon |-> -8070500],
     descripcion |-> "Infraestructura estratégica aérea y naval; hasta 2009 funcionó una base militar extranjera.",
     importancia |-> "Alta"],
    [tipo |-> "Estación Científica", nombre |-> "Base Pedro Vicente Maldonado (Antártida)",
     ubicacion |-> [lat |-> -6250000, lon |-> -5970000],
     descripcion |-> "Estación antártica ecuatoriana en isla Greenwich, presencia estratégica en la Antártida.",
     importancia |-> "Media-Alta"],
    [tipo |-> "Infraestructura Energética", nombre |-> "Central Térmica Esmeraldas I",
     ubicacion |-> [lat |-> 91670, lon |-> -7966670],
     descripcion |-> "Central térmica a vapor de 130 MW, operativa desde 1982.",
     importancia |-> "Alta"],
    [tipo |-> "Infraestructura Energética", nombre |-> "Central Térmica Esmeraldas II",
     ubicacion |-> [lat |-> 91670, lon |-> -7966670],
     descripcion |-> "Central térmica de 96 MW operativa desde 2014.",
     importancia |-> "Alta"],
    [tipo |-> "Infraestructura Energética", nombre |-> "Central Hidroeléctrica Coca Codo Sinclair",
     ubicacion |-> [lat |-> -19930, lon |-> -7768390],
     descripcion |-> "Planta hidroeléctrica más grande del país (1 500 MW), entre Napo y Sucumbíos.",
     importancia |-> "Alta"]
  >>]

(* The risk table: provincia and indice_riesgo (the factores column is only
   joined for display and plays no part in the ranking). *)
INDICADORES_SEG == <<
    [provincia |-> "Guayas", indice_riesgo |-> 9],
    [provincia |-> "Esmeraldas", indice_riesgo |-> 10],
    [provincia |-> "Manabí", indice_riesgo |-> 8],
    [provincia |-> "El Oro", indice_riesgo |-> 8],
    [provincia |-> "Santo Domingo De Los Tsáchilas", indice_riesgo |-> 8],
    [provincia |-> "Sucumbíos", indice_riesgo |-> 10],
    [provincia |-> "Pichincha", indice_riesgo |-> 7],
    [provincia |-> "Carchi", indice_riesgo |-> 8],
    [provincia |-> "Azuay", indice_riesgo |-> 4],
    [provincia |-> "Loja", indice_riesgo |-> 3],
    [provincia |-> "Galápagos", indice_riesgo |-> 2],
    [provincia |-> "Napo", indice_riesgo |-> 6],
    [provincia |-> "Pastaza", indice_riesgo |-> 5],
    [provincia |-> "Morona Santiago", indice_riesgo |-> 4],
    [provincia |-> "Orellana", indice_riesgo |-> 7],
    [provincia |-> "Zamora Chinchipe", indice_riesgo |-> 6],
    [provincia |-> "Los Ríos", indice_riesgo |-> 7],
    [provincia |-> "Cañar", indice_riesgo |-> 4],
    [provincia |-> "Chimborazo", indice_riesgo |-> 5],
    [provincia |-> "Cotopaxi", indice_riesgo |-> 5],
    [provincia |-> "Imbabura", indice_riesgo |-> 4],
    [provincia |-> "Tungurahua", indice_riesgo |-> 3],
    [provincia |-> "Bolívar", indice_riesgo |-> 2],
    [provincia |-> "Santa Elena", indice_riesgo |-> 5]
  >>


(***************************************************************************)
(* Python values                                                           *)
(***************************************************************************)
\* the literals "(Todas)", "(Todos)", "" and str(None) = "None"
Todas == <<40,84,111,100,97,115,41>>
Todos == <<40,84,111,100,111,115,41>>
EmptyStr == <<>>
NoneStr == <<78,111,110,101>>

\* JSON values as the json module decodes them: str, None, int, list, dict
JStr(s) == [t |-> "str", v |-> s]
JNull == [t |-> "null"]
JNum(n) == [t |-> "num", v |-> n]
JList(xs) == [t |-> "list", v |-> xs]
JObject(d) == [t |-> "object", v |-> d]
JArray == [t |-> "array"]
EmptyDict == [k \in {} |-> JNull]

\* dict.get(k, default)
Get(d, k, default) == IF k \in DOMAIN d THEN d[k] ELSE default

RECURSIVE Decimal(_)
Decimal(n) == IF n < 10 THEN <<48 + n>> ELSE Decimal(n \div 10) \o <<48 + (n % 10)>>

\* str(x) of a decoded JSON scalar
Str(x) ==
    CASE x.t = "str" -> x.v
      [] x.t = "null" -> NoneStr
      [] x.t = "num" -> Decimal(x.v)

IsUpper(c) == c \in 65..90 \/ (c \in 192..222 /\ c # 215)
IsLower(c) == c \in 97..122 \/ (c \in 224..254 /\ c # 247)
IsCased(c) == IsUpper(c) \/ IsLower(c)
ToUpper(c) == IF IsLower(c) THEN c - 32 ELSE c
ToLower(c) == IF IsUpper(c) THEN c + 32 ELSE c

\* str.title(): a cased character is upper-cased when the character before it
\* is not cased (or there is none), and lower-cased otherwise
Title(s) ==
    [i \in 1..Len(s) |->
        IF i > 1 /\ IsCased(s[i-1]) THEN ToLower(s[i]) ELSE ToUpper(s[i])]

\* Python's < on str: lexicographic by code point
StrLess(a, b) ==
    \/ \E i \in 1..Len(a) :
          /\ i <= Len(b)
          /\ a[i] < b[i]
          /\ \A j \in 1..(i-1) : a[j] = b[j]
    \/ /\ Len(a) < Len(b)
       /\ \A j \in 1..Len(a) : a[j] = b[j]

\* insert x into the sorted sequence s after the elements not greater than it
RECURSIVE InsertStr(_, _)
InsertStr(x, s) ==
    IF s = <<>> THEN <<x>>
    ELSE IF StrLess(x, Head(s)) THEN <<x>> \o s
    ELSE <<Head(s)>> \o InsertStr(x, Tail(s))

\* sorted(list of str)
RECURSIVE Sorted(_)
Sorted(s) == IF s = <<>> THEN <<>> ELSE InsertStr(s[Len(s)], Sorted(SubSeq(s, 1, Len(s) - 1)))

\* sorted(list(set of str))
RECURSIVE SortedSet(_)
SortedSet(S) ==
    IF S = {} THEN <<>>
    ELSE LET x == CHOOSE y \in S : \A z \in S : ~StrLess(z, y)
         IN <<x>> \o SortedSet(S \ {x})

Range(s) == {s[i] : i \in 1..Len(s)}

(***************************************************************************)
(* The feature service.  The parishes it can answer with, as the service   *)
(* spells them: upper case, one in title case, one province outside the    *)
(* catalog, an empty canton, a null parish, a null and a missing area.     *)
(***************************************************************************)
F1 ==
    [type |-> "Feature", geometry |-> "g1",
     properties |-> [DPA_DESPRO |-> JStr(<<65,90,85,65,89>>),          \* AZUAY
                     DPA_DESCAN |-> JStr(<<67,85,69,78,67,65>>),       \* CUENCA
                     DPA_DESPAR |-> JStr(<<66,65,209,79,83>>),         \* BAÑOS
                     AREA_KM2 |-> JNum(3)]]
F2 ==
    [type |-> "Feature", geometry |-> "g2",
     properties |-> [DPA_DESPRO |-> JStr(<<65,90,85,65,89>>),          \* AZUAY
                     DPA_DESCAN |-> JStr(<<71,73,82,79,78>>),          \* GIRON
                     DPA_DESPAR |-> JStr(<<65,83,85,78,67,73,79,78>>)]] \* ASUNCION
F3 ==
    [type |-> "Feature", geometry |-> "g3",
     properties |-> [DPA_DESPRO |-> JStr(<<76,111,106,97>>),           \* Loja
                     DPA_DESCAN |-> JStr(<<67,85,69,78,67,65>>),       \* CUENCA
                     DPA_DESPAR |-> JStr(<<69,76,32,86,65,76,76,69>>), \* EL VALLE
                     AREA_KM2 |-> JNum(1)]]
F4 ==
    [type |-> "Feature", geometry |-> "g4",
     properties |-> [DPA_DESPRO |-> JStr(<<69,76,32,79,82,79>>),       \* EL ORO
                     DPA_DESCAN |-> JStr(<<>>),                        \* ""
                     DPA_DESPAR |-> JNull,
                     AREA_KM2 |-> JNull]]
F5 ==
    [type |-> "Feature", geometry |-> "g5",
     properties |-> [DPA_DESPRO |-> JStr(<<90,79,78,65,32,78,79,32,68,69,76,73,77,73,84,65,68,65>>), \* ZONA NO DELIMITADA
                     DPA_DESCAN |-> JStr(<<76,65,83,32,71,79,76,79,78,68,82,73,78,65,83>>),          \* LAS GOLONDRINAS
                     DPA_DESPAR |-> JStr(<<76,65,83,32,71,79,76,79,78,68,82,73,78,65,83>>),
                     AREA_KM2 |-> JNum(2)]]

Pool == {F1, F2, F3, F4, F5}

\* the feature lists the service can answer with: each parish at most once
FeatureLists ==
    {fs \in UNION {[1..n -> Pool] : n \in 0..MaxFeatures} :
        \A i, j \in 1..Len(fs) : fs[i] = fs[j] => i = j}

FeatureCollection(fs) ==
    [kind |-> "json",
     value |-> JObject([type |-> "FeatureCollection", features |-> JList(fs)])]

\* a body that is not JSON, a JSON array, the service's JSON error object, a
\* collection whose features member is null
MalformedBodies ==
    {[kind |-> "not_json"],
     [kind |-> "json", value |-> JArray],
     [kind |-> "json", value |-> JObject([error |-> "Invalid query parameters"])],
     [kind |-> "json", value |-> JObject([type |-> "FeatureCollection", features |-> JNull])]}

\* what requests.get can come back with: no response at all, a success status
\* with any body, an error status with an error page, the error object or
\* (a misbehaving proxy) a whole feature collection.  requests follows
\* redirects, so the final status is a 2xx, a 4xx or a 5xx
Responses ==
    {[kind |-> "transport_error"]}
    \cup {[kind |-> "http", status |-> 200, body |-> b]
          : b \in MalformedBodies \cup {FeatureCollection(fs) : fs \in FeatureLists}}
    \cup {[kind |-> "http", status |-> s, body |-> b]
          : s \in {404, 500},
            b \in {[kind |-> "not_json"],
                   [kind |-> "json", value |-> JObject([error |-> "Invalid query parameters"])],
                   FeatureCollection(<<F1, F3>>)}}

(***************************************************************************)
(* 1) fetch_parroquias_geojson and build_prov_cant                         *)
(***************************************************************************)
Raised(exc) == [raised |-> TRUE, exc |-> exc]
Returned(v) == [raised |-> FALSE, value |-> v]

\* the row the fetch and section 9 build from one feature's properties
Row(props) ==
    [Provincia |-> Title(Str(Get(props, FIELD_PROV, JStr(EmptyStr)))),
     Canton |-> Title(Str(Get(props, FIELD_CANT, JStr(EmptyStr)))),
     Parroquia |-> Title(Str(Get(props, FIELD_PARR, JStr(EmptyStr)))),
     Area |-> Get(props, FIELD_AREA, JNull)]

\* gj.get("features", [])
Features(gj) == Get(gj, "features", JList(<<>>))

\* r.raise_for_status() raises on a 4xx or 5xx status
raise_for_status_never(resp) == FALSE
raise_for_status(resp) == resp.status >= 400 /\ resp.status < 600

fetch_parroquias_geojson(resp) ==
    IF resp.kind = "transport_error" THEN Raised("ConnectionError")
    ELSE IF raise_for_status(resp) THEN Raised("HTTPError")
    ELSE IF resp.body.kind = "not_json" THEN Raised("JSONDecodeError")
    ELSE IF resp.body.value.t # "object" THEN Raised("AttributeError")
    ELSE LET gj == resp.body.value.v
             fs == Features(gj)
         IN IF fs.t # "list" THEN Raised("TypeError")
            ELSE Returned([gj |-> gj,
                           df |-> [i \in 1..Len(fs.v) |->
                                     Row(Get(fs.v[i], "properties", EmptyDict))]])

\* {Provincia: sorted cantons}, from the rows with a non-empty province and canton
build_prov_cant(df_parr) ==
    LET provs == {df_parr[i].Provincia : i \in {j \in 1..Len(df_parr) :
                       df_parr[j].Provincia # EmptyStr /\ df_parr[j].Canton # EmptyStr}}
    IN [prov \in provs |->
          SortedSet({df_parr[i].Canton : i \in {j \in 1..Len(df_parr) :
                        df_parr[j].Provincia = prov /\ df_parr[j].Canton # EmptyStr}})]

(***************************************************************************)
(* 3) and 4) Sidebar controls and catalogs                                 *)
(***************************************************************************)
Niveles == <<"Provincias", "Cantones", "Parroquias">>

NotRendered == [rendered |-> FALSE]
Widget(options, value) == [rendered |-> TRUE, options |-> options, value |-> value]

\* st.sidebar.selectbox(label, options): the value the session holds for the
\* widget with this label and these options, else the first option (a
\* selectbox with other options is another widget, and starts at index 0)
selectbox_keeps_value(w, options) ==
    IF w.rendered THEN w.value ELSE options[1]
selectbox(w, options) ==
    IF w.rendered /\ w.options = options THEN w.value ELSE options[1]

\* sorted(REGIONES[region]), for every region
SortedRegiones == [rg \in Range(RegionNames) |-> Sorted(REGIONES[rg])]
provincias_region(rg) == SortedRegiones[rg]

cantones_of_every_province(PROV_CANT, provincia) ==
    IF provincia # Todas THEN Get(PROV_CANT, provincia, <<>>)
    ELSE SortedSet(UNION {Range(PROV_CANT[p]) : p \in DOMAIN PROV_CANT})
cantones(PROV_CANT, provincia) ==
    IF provincia # Todas THEN Get(PROV_CANT, provincia, <<>>) ELSE <<>>

(***************************************************************************)
(* 6) Filter                                                               *)
(***************************************************************************)
feature_matches_canton_at_every_level(props, nv, provs, provincia, canton) ==
    LET prov == Title(Str(Get(props, FIELD_PROV, JStr(EmptyStr))))
        cant == Title(Str(Get(props, FIELD_CANT, JStr(EmptyStr))))
    IN IF prov \notin Range(provs) THEN FALSE
       ELSE IF provincia # Todas /\ prov # provincia THEN FALSE
       ELSE IF canton # Todos /\ cant # canton THEN FALSE
       ELSE TRUE
\* (parr is computed at line 178 and never read)
feature_matches(props, nv, provs, provincia, canton) ==
    LET prov == Title(Str(Get(props, FIELD_PROV, JStr(EmptyStr))))
        cant == Title(Str(Get(props, FIELD_CANT, JStr(EmptyStr))))
    IN IF prov \notin Range(provs) THEN FALSE
       ELSE IF provincia # Todas /\ prov # provincia THEN FALSE
       ELSE IF nv \in {"Cantones", "Parroquias"} /\ canton # Todos /\ cant # canton THEN FALSE
       ELSE TRUE

\* the loop over gj_parr.get("features", []) that appends the matching features
RECURSIVE FilterLoop(_, _, _, _, _)
FilterLoop(fs, nv, provs, provincia, canton) ==
    IF fs = <<>> THEN <<>>
    ELSE LET f == fs[Len(fs)]
             before == FilterLoop(SubSeq(fs, 1, Len(fs) - 1), nv, provs, provincia, canton)
         IN IF feature_matches(Get(f, "properties", EmptyDict), nv, provs, provincia, canton)
            THEN Append(before, f)
            ELSE before

\* "if not filtered_features": warn and st.stop()
NeverStops(filtered) == FALSE
StopsOnEmpty(filtered) == filtered = <<>>

(***************************************************************************)
(* 7) to 9) KPIs, map, table, hierarchy                                    *)
(***************************************************************************)
label_field(nv) ==
    IF nv = "Provincias" THEN FIELD_PROV
    ELSE IF nv = "Cantones" THEN FIELD_CANT
    ELSE FIELD_PARR

\* one CircleMarker per point of PUNTOS_GEO_JSON
CircleMarkers ==
    [i \in 1..Len(PUNTOS_GEO_JSON.puntos_geopoliticos) |->
        LET p == PUNTOS_GEO_JSON.puntos_geopoliticos[i]
        IN [location |-> <<p.ubicacion.lat, p.ubicacion.lon>>,
            popup |-> <<p.nombre, p.tipo, p.descripcion, p.importancia>>]]

\* the markers added to the map: "if mostrar_puntos"
MarkersOfHighImportance(mp) ==
    IF mp THEN SelectSeq(CircleMarkers, LAMBDA mk : mk.popup[4] = "Alta") ELSE <<>>
Markers(mp) == IF mp THEN CircleMarkers ELSE <<>>

RowLess(a, b) ==
    \/ StrLess(a.Provincia, b.Provincia)
    \/ /\ a.Provincia = b.Provincia
       /\ \/ StrLess(a.Canton, b.Canton)
          \/ /\ a.Canton = b.Canton
             /\ StrLess(a.Parroquia, b.Parroquia)

RECURSIVE InsertRow(_, _)
InsertRow(x, s) ==
    IF s = <<>> THEN <<x>>
    ELSE IF RowLess(x, Head(s)) THEN <<x>> \o s
    ELSE <<Head(s)>> \o InsertRow(x, Tail(s))

\* df.sort_values(["Provincia","Cantón","Parroquia"])
sort_values_by_provincia_only(df) ==
    LET ByProv(a, b) == ~StrLess(b.Provincia, a.Provincia) IN SortSeq(df, ByProv)
RECURSIVE sort_values(_)
sort_values(df) ==
    IF df = <<>> THEN <<>>
    ELSE InsertRow(df[Len(df)], sort_values(SubSeq(df, 1, Len(df) - 1)))

sunburst_path(nv) ==
    IF nv = "Provincias" THEN <<"Provincia">>
    ELSE IF nv = "Cantones" THEN <<"Provincia", "Cantón">>
    ELSE <<"Provincia", "Cantón", "Parroquia">>

NotShown == [shown |-> FALSE]
EmptyPage ==
    [exception |-> "", warning |-> FALSE, kpi |-> NotShown, map |-> NotShown,
     table |-> NotShown, chart |-> NotShown]

\* sections 7 to 9 on a non-empty filtered_features
Render(filtered, nv, rg, mp) ==
    [exception |-> "",
     warning |-> FALSE,
     kpi |-> [shown |-> TRUE, nivel |-> nv, region |-> rg, visibles |-> Len(filtered)],
     map |-> [shown |-> TRUE, features |-> filtered, label_field |-> label_field(nv),
              markers |-> Markers(mp)],
     table |-> [shown |-> TRUE,
                rows |-> sort_values([i \in 1..Len(filtered) |->
                                        Row(Get(filtered[i], "properties", EmptyDict))])],
     chart |-> [shown |-> TRUE, path |-> sunburst_path(nv)]]

(***************************************************************************)
(* 10) Security indicators: sort_values("indice_riesgo", ascending=False)  *)
(* and head(10).  sort_values sorts with kind="quicksort", which is not a  *)
(* stable sort: rows with equal indice_riesgo come out in any order.       *)
(***************************************************************************)
TopN == 10

\* pd.DataFrame(INDICADORES_SEG): the rows with their index labels
df_ind == [i \in 1..Len(INDICADORES_SEG) |->
             [index |-> i, provincia |-> INDICADORES_SEG[i].provincia,
              indice_riesgo |-> INDICADORES_SEG[i].indice_riesgo]]

Perms(S) == {p \in [1..Cardinality(S) -> S] : Range(p) = S}

\* the first n rows, among the rows R of df, of every descending order an
\* unstable sort can produce
RECURSIVE SortedHeads(_, _, _)
SortedHeads(df, R, n) ==
    IF n <= 0 \/ R = {} THEN {<<>>}
    ELSE LET mx == CHOOSE v \in {df[i].indice_riesgo : i \in R} :
                       \A i \in R : df[i].indice_riesgo <= v
             G == {i \in R : df[i].indice_riesgo = mx}
         IN IF Cardinality(G) >= n
            THEN {SubSeq(p, 1, n) : p \in Perms(G)}
            ELSE {p \o rest : p \in Perms(G), rest \in SortedHeads(df, R \ G, n - Cardinality(G))}

\* df.sort_values("indice_riesgo", ascending=False).head(n), every outcome
head_without_sort(df, n) == {SubSeq(df, 1, n)}
sort_values_head(df, n) ==
    {[k \in 1..Len(h) |-> df[h[k]]] : h \in SortedHeads(df, 1..Len(df), n)}

(***************************************************************************)
(* One run of the script                                                   *)
(***************************************************************************)
NoEntry == [hit |-> FALSE]
\* st.cache_data keeps the value a call returned
CacheStoresNothing(res) == NoEntry
CacheStore(res) == [hit |-> TRUE, value |-> res.value]

NoResponse == [kind |-> "none"]
NoSel == [set |-> FALSE]

\* line 150: the cached value, or the call
FetchCached(resp) ==
    IF cache.hit THEN Returned(cache.value) ELSE fetch_parroquias_geojson(resp)

(* The script with the widget states nv, rg, mp, wp, wc, where resp is the
   service's answer should the fetch reach it. *)
Run(nv, rg, mp, wp, wc, resp) ==
    LET res == FetchCached(resp) IN
    /\ nivel' = nv
    /\ region' = rg
    /\ mostrar_puntos' = mp
    /\ netCalls' = IF cache.hit THEN 0 ELSE 1
    /\ response' = IF cache.hit THEN NoResponse ELSE resp
    /\ UNCHANGED <<mostrar_indic, df_top>>
    /\ IF res.raised
       THEN \* the exception ends the run at line 150
            /\ cache' = cache
            /\ outcome' = "exception"
            /\ wProvincia' = NotRendered
            /\ wCanton' = NotRendered
            /\ sel' = NoSel
            /\ filtered_features' = <<>>
            /\ page' = [EmptyPage EXCEPT !.exception = res.exc]
       ELSE LET gj_parr == res.value.gj
                PROV_CANT == build_prov_cant(res.value.df)
                provs == provincias_region(rg)
                provOptions == <<Todas>> \o provs
                provincia == selectbox(wp, provOptions)
                cants == cantones(PROV_CANT, provincia)
                cantOptions == <<Todos>> \o cants
                canton == IF cants # <<>> THEN selectbox(wc, cantOptions) ELSE Todos
                filtered == FilterLoop(Features(gj_parr).v, nv, provs, provincia, canton)
            IN /\ cache' = IF cache.hit THEN cache ELSE CacheStore(res)
               /\ wProvincia' = Widget(provOptions, provincia)
               /\ wCanton' = IF cants # <<>> THEN Widget(cantOptions, canton) ELSE NotRendered
               /\ sel' = [set |-> TRUE, provincias_region |-> provs,
                          provincia |-> provincia, canton |-> canton]
               /\ filtered_features' = filtered
               /\ IF StopsOnEmpty(filtered)
                  THEN /\ outcome' = "stopped"
                       /\ page' = [EmptyPage EXCEPT !.warning = TRUE]
                  ELSE /\ outcome' = "completed"
                       /\ page' = Render(filtered, nv, rg, mp)

\* the answers the service can give to this run
Answers == IF cache.hit THEN {NoResponse} ELSE Responses

Init ==
    /\ cache = NoEntry
    /\ nivel = Niveles[1]
    /\ region = RegionNames[1]
    /\ mostrar_puntos = TRUE
    /\ mostrar_indic = TRUE
    /\ wProvincia = NotRendered
    /\ wCanton = NotRendered
    /\ outcome = "none"
    /\ netCalls = 0
    /\ response = NoResponse
    /\ sel = NoSel
    /\ filtered_features = <<>>
    /\ page = EmptyPage
    /\ df_top = NotShown

\* the first load, or a rerun with the controls as they are
Rerun ==
    \E resp \in Answers :
        Run(nivel, region, mostrar_puntos, wProvincia, wCanton, resp)

SetNivel ==
    /\ outcome # "none"
    /\ \E nv \in Range(Niveles) \ {nivel}, resp \in Answers :
          Run(nv, region, mostrar_puntos, wProvincia, wCanton, resp)

SetRegion ==
    /\ outcome # "none"
    /\ \E rg \in Range(RegionNames) \ {region}, resp \in Answers :
          Run(nivel, rg, mostrar_puntos, wProvincia, wCanton, resp)

ToggleMostrarPuntos ==
    /\ outcome # "none"
    /\ \E resp \in Answers :
          Run(nivel, region, ~mostrar_puntos, wProvincia, wCanton, resp)

SetProvincia ==
    /\ wProvincia.rendered
    /\ \E v \in Range(wProvincia.options) \ {wProvincia.value}, resp \in Answers :
          Run(nivel, region, mostrar_puntos, Widget(wProvincia.options, v), wCanton, resp)

SetCanton ==
    /\ wCanton.rendered
    /\ \E v \in Range(wCanton.options) \ {wCanton.value}, resp \in Answers :
          Run(nivel, region, mostrar_puntos, wProvincia, Widget(wCanton.options, v), resp)

Next ==
    \/ Rerun
    \/ SetNivel
    \/ SetRegion
    \/ ToggleMostrarPuntos
    \/ SetProvincia
    \/ SetCanton

Spec == Init /\ [][Next]_vars

(* Section 10 of a run that reaches it, with the checkbox as the user left it. *)
Indicadores ==
    \E mi \in BOOLEAN :
        /\ mostrar_indic' = mi
        /\ df_top' \in IF mi THEN {[shown |-> TRUE, rows |-> r] : r \in sort_values_head(df_ind, TopN)}
                             ELSE {NotShown}
        /\ UNCHANGED <<cache, nivel, region, mostrar_puntos, wProvincia, wCanton,
                       outcome, netCalls, response, sel, filtered_features, page>>

NextIndic == Indicadores

SpecIndic == Init /\ [][NextIndic]_vars

(***************************************************************************)
(* Properties                                                              *)
(***************************************************************************)
\* the feature list of the cached collection, and each feature's
\* title-cased province and canton
CachedFeatures == Features(cache.value.gj).v
ProvOf(f) == Title(Str(Get(Get(f, "properties", EmptyDict), "DPA_DESPRO", JStr(<<>>))))
CantOf(f) == Title(Str(Get(Get(f, "properties", EmptyDict), "DPA_DESCAN", JStr(<<>>))))
ParrOf(f) == Title(Str(Get(Get(f, "properties", EmptyDict), "DPA_DESPAR", JStr(<<>>))))

\* the elements of F at the positions M, in the order of F
SubsequenceAt(F, M) ==
    [k \in 1..Cardinality(M) |->
        F[CHOOSE i \in M : Cardinality({j \in M : j < i}) = k - 1]]

Azuay == <<65,122,117,97,121>>
Loja == <<76,111,106,97>>
Cuenca == <<67,117,101,110,99,97>>

(* C1: in a run that reaches the filter, filtered_features is exactly the
   subsequence of the fetched features, in their order and each position at
   most once, whose title-cased province is in REGIONES[region], and
   (provincia is "(Todas)" or equals the province), and (nivel is Provincias
   or canton is "(Todos)" or equals the canton); the parish plays no part. *)
C1_FilterIsTheMatchingSubsequence ==
    sel.set =>
        LET F == CachedFeatures
            M == {i \in 1..Len(F) :
                    /\ ProvOf(F[i]) \in Range(REGIONES[region])
                    /\ (sel.provincia = Todas \/ ProvOf(F[i]) = sel.provincia)
                    /\ (nivel = "Provincias" \/ sel.canton = Todos
                            \/ CantOf(F[i]) = sel.canton)}
        IN filtered_features = SubsequenceAt(F, M)

\* at level Cantones a canton is selected: the second of two parishes of the
\* province is kept and the first, of another canton, is dropped
C1_Witness ==
    /\ sel.set
    /\ nivel = "Cantones"
    /\ sel.canton # Todos
    /\ Len(CachedFeatures) = 2
    /\ filtered_features = <<CachedFeatures[2]>>
    /\ ProvOf(CachedFeatures[1]) = sel.provincia

(* C2: in a run whose provincia is "(Todas)", canton is "(Todos)" (the canton
   control is not rendered) and filtered_features is the features whose
   province is in the selected region, whatever the level. *)
C2_TodasDependsOnRegionOnly ==
    (sel.set /\ sel.provincia = Todas) =>
        /\ sel.canton = Todos
        /\ ~wCanton.rendered
        /\ LET F == CachedFeatures
           IN filtered_features =
                SubsequenceAt(F, {i \in 1..Len(F) : ProvOf(F[i]) \in Range(REGIONES[region])})

\* "(Todas)" at level Parroquias, showing parishes of two cantons
C2_Witness ==
    /\ sel.set
    /\ sel.provincia = Todas
    /\ nivel = "Parroquias"
    /\ Len(filtered_features) >= 2
    /\ CantOf(filtered_features[1]) # CantOf(filtered_features[2])

\* a success status with a body that is a feature collection
ValidFeatureCollection(resp) ==
    /\ resp.kind = "http"
    /\ resp.status \in 200..299
    /\ resp.body.kind = "json"
    /\ resp.body.value.t = "object"
    /\ "features" \in DOMAIN resp.body.value.v
    /\ resp.body.value.v.features.t = "list"

(* C3: a run whose fetch called the service and returned a result got a
   success status and a body that is a valid feature collection. *)
C3_ResultOnlyFromValidCollection ==
    (netCalls = 1 /\ outcome # "exception") => ValidFeatureCollection(response)

(* C4: a run whose filter matches no feature ends with the warning and
   stops: no exception, and no KPI, map, table or hierarchy chart. *)
C4_EmptyResultWarnsAndStops ==
    (sel.set /\ filtered_features = <<>>) =>
        /\ outcome = "stopped"
        /\ page.warning
        /\ page.exception = ""
        /\ ~page.kpi.shown /\ ~page.map.shown /\ ~page.table.shown /\ ~page.chart.shown

\* a province of the region is selected that the fetched parishes do not have
C4_Witness ==
    /\ outcome = "stopped"
    /\ page.warning
    /\ sel.provincia # Todas
    /\ Len(CachedFeatures) > 0

\* the map's markers are the points of PUNTOS_GEO_JSON, all and in order
CompleteMarkers(markers) ==
    LET P == PUNTOS_GEO_JSON.puntos_geopoliticos
    IN /\ Len(markers) = Len(P)
       /\ \A i \in 1..Len(P) :
            /\ markers[i].location = <<P[i].ubicacion.lat, P[i].ubicacion.lon>>
            /\ markers[i].popup[1] = P[i].nombre

(* C5 as stated: in every run with a successful fetch and the points toggle
   on, the whole collection of points is handed to the map, also when the
   filter matches no feature. *)
C5_PointsAlwaysOnMap ==
    (sel.set /\ mostrar_puntos) => (page.map.shown /\ CompleteMarkers(page.map.markers))

(* C5 amended: in every run with a successful fetch, the points toggle on and
   a non-empty filtered set, the whole collection of points is handed to the
   map, whatever the level, region, province and canton; when the filter
   matches no feature the run stops before the map and no point is shown. *)
C5_PointsOnMapWhenNotEmpty ==
    (sel.set /\ mostrar_puntos) =>
        IF filtered_features # <<>>
        THEN page.map.shown /\ CompleteMarkers(page.map.markers)
        ELSE ~page.map.shown

\* the points are on a map that shows one parish of a selected canton
C5_Witness ==
    /\ sel.set
    /\ mostrar_puntos
    /\ sel.canton # Todos
    /\ page.map.shown
    /\ Len(page.map.markers) = 18
    /\ Len(page.map.features) = 1

(* C6: after a run in which the fetch succeeded, every later run makes no
   network call and works on the same cached result. *)
C6_NoCallAfterSuccess ==
    [][(outcome \in {"stopped", "completed"})
          => (netCalls' = 0 /\ cache.hit /\ cache' = cache)]_vars

\* a run that used the cache after a control was changed
C6_Witness ==
    /\ cache.hit
    /\ netCalls = 0
    /\ outcome = "completed"
    /\ nivel = "Cantones"
    /\ region = "Sierra"

\* the call raised: no response, an error status, or a body that is not JSON
FetchFailed ==
    \/ response.kind = "transport_error"
    \/ /\ response.kind = "http"
       /\ \/ response.status \notin 200..299
          \/ response.body.kind = "not_json"

TerminalError ==
    /\ outcome = "exception"
    /\ page = [EmptyPage EXCEPT !.exception = page.exception]
    /\ page.exception # ""
    /\ ~sel.set
    /\ filtered_features = <<>>
    /\ ~cache.hit

(* C7: a run in which the fetch fails ends with the exception: nothing is
   filtered and no map, table or chart is shown; it called the service once;
   and the run the user starts next calls the service again. *)
C7_FailedFetchIsTerminal ==
    [][/\ FetchFailed' => (TerminalError' /\ netCalls' = 1)
       /\ netCalls' <= 1
       /\ FetchFailed => netCalls' = 1]_vars

\* an error status in front of a whole feature collection
C7_Witness ==
    /\ FetchFailed
    /\ outcome = "exception"
    /\ response.kind = "http"
    /\ response.status = 500
    /\ response.body.kind = "json"
    /\ page.exception = "HTTPError"

\* the rows of the top-10 view are ten different rows of the table, in
\* non-increasing order of indice_riesgo, and no row left out has a higher
\* indice_riesgo than a row of the view
TopTenDescending(rows) ==
    /\ Len(rows) = 10
    /\ \A k \in 1..Len(rows) :
         /\ rows[k].index \in 1..Len(INDICADORES_SEG)
         /\ rows[k].provincia = INDICADORES_SEG[rows[k].index].provincia
         /\ rows[k].indice_riesgo = INDICADORES_SEG[rows[k].index].indice_riesgo
    /\ \A k, l \in 1..Len(rows) : rows[k].index = rows[l].index => k = l
    /\ \A k \in 1..(Len(rows) - 1) : rows[k].indice_riesgo >= rows[k+1].indice_riesgo
    /\ \A i \in 1..Len(INDICADORES_SEG) :
         (\A k \in 1..Len(rows) : rows[k].index # i) =>
             \A k \in 1..Len(rows) : INDICADORES_SEG[i].indice_riesgo <= rows[k].indice_riesgo

\* rows with the same indice_riesgo are in the order of the table
TiesInTableOrder(rows) ==
    \A k, l \in 1..Len(rows) :
        (k < l /\ rows[k].indice_riesgo = rows[l].indice_riesgo) => rows[k].index < rows[l].index

(* C8 as stated: the top-10 view holds exactly the 10 entries with the
   highest indice_riesgo, in non-increasing order, entries with the same
   indice_riesgo in their order of the table. *)
C8_TopTenStable ==
    df_top.shown => (TopTenDescending(df_top.rows) /\ TiesInTableOrder(df_top.rows))

(* C8 amended: the top-10 view holds exactly the 10 entries with the highest
   indice_riesgo, in non-increasing order of indice_riesgo; the order of
   entries with the same indice_riesgo is not determined. *)
C8_TopTenDescending ==
    df_top.shown => TopTenDescending(df_top.rows)

\* the order numpy's quicksort gives on this table
C8_Witness ==
    /\ df_top.shown
    /\ [k \in 1..Len(df_top.rows) |-> df_top.rows[k].index] = <<6, 2, 1, 3, 4, 5, 8, 15, 7, 17>>
    /\ df_top.rows[1].provincia = "Sucumbíos"

\* the row of the flat table that a feature gives
ExpectedRow(f) ==
    LET props == Get(f, "properties", EmptyDict)
    IN [Provincia |-> ProvOf(f), Canton |-> CantOf(f), Parroquia |-> ParrOf(f),
        Area |-> IF "AREA_KM2" \in DOMAIN props THEN props["AREA_KM2"] ELSE JNull]

Count(s, x) == Cardinality({i \in 1..Len(s) : s[i] = x})

\* (province, canton, parish) of a is not after that of b
LexLeq(a, b) ==
    \/ StrLess(a.Provincia, b.Provincia)
    \/ /\ a.Provincia = b.Provincia
       /\ StrLess(a.Canton, b.Canton)
    \/ /\ a.Provincia = b.Provincia
       /\ a.Canton = b.Canton
       /\ ~StrLess(b.Parroquia, a.Parroquia)

(* C9: for a non-empty filtered set, the table shown has one row per filtered
   feature, with the same province, canton, parish and area values (an absent
   area stays absent), and its rows are non-decreasing in the lexicographic
   order of (province, canton, parish). *)
C9_TableIsSortedPermutation ==
    (sel.set /\ filtered_features # <<>>) =>
        /\ page.table.shown
        /\ LET rows == page.table.rows
               expected == [i \in 1..Len(filtered_features) |-> ExpectedRow(filtered_features[i])]
           IN /\ Len(rows) = Len(expected)
              /\ \A i \in 1..Len(expected) : Count(rows, expected[i]) = Count(expected, expected[i])
              /\ \A k \in 1..(Len(rows) - 1) : LexLeq(rows[k], rows[k+1])

\* the table reorders the filtered parishes of one province by canton, and
\* keeps a row without area
C9_Witness ==
    /\ outcome = "completed"
    /\ Len(page.table.rows) = 2
    /\ page.table.rows[1] = ExpectedRow(filtered_features[2])
    /\ page.table.rows[1].Provincia = page.table.rows[2].Provincia
    /\ page.table.rows[2].Area = JNull

(* C10: the selection the filter uses is consistent with the hierarchy:
   provincia is "(Todas)" or a province of REGIONES[region], and canton is
   "(Todos)" or a canton that the index has for the selected province. *)
C10_SelectionFollowsHierarchy ==
    sel.set =>
        /\ sel.provincia = Todas \/ sel.provincia \in Range(REGIONES[region])
        /\ \/ sel.canton = Todos
           \/ /\ sel.provincia # Todas
              /\ \E i \in 1..Len(cache.value.df) :
                    /\ cache.value.df[i].Provincia = sel.provincia
                    /\ cache.value.df[i].Canton = sel.canton

\* Loja with the canton Cuenca selected, where Azuay has the same canton list
\* (the canton control keeps its value when the province changes between them)
C10_Witness ==
    /\ sel.set
    /\ sel.provincia = Loja
    /\ sel.canton = Cuenca
    /\ \E i \in 1..Len(cache.value.df) :
          cache.value.df[i].Provincia = Azuay /\ cache.value.df[i].Canton = Cuenca
    /\ \A i \in 1..Len(cache.value.df) :
          cache.value.df[i].Provincia = Azuay => cache.value.df[i].Canton = Cuenca
=============================================================================
